---- MODULE Spec2Model ----
(***************************************************************************)
(* Model of the Rubin summit temperature-forecast worker                   *)
(* (src/cloudflare_worker.js).                                             *)
(*                                                                         *)
(* Part 1, specification Spec: the request handlers of the worker over the *)
(* key-value store TEMP_KV: POST /api/update (two separate writes, keys    *)
(* latest_csv and latest_csv_time), GET /api/forecast and                  *)
(* GET /api/forecast_time.  Each await of a handler is a step of its own,  *)
(* so that the handlers of different requests interleave as they do in the *)
(* worker.                                                                 *)
(*                                                                         *)
(* Part 2, specification SpecParse: the CSV parse loop of the page script  *)
(* (fetchAndRedraw), applied to bounded table texts.                       *)
(*                                                                         *)
(* Texts (request bodies, header values, table texts) are sequences of     *)
(* tokens, the empty text being <<>>.  A JavaScript value that may be null *)
(* is a record [present, value] with present = FALSE for null.             *)
(***************************************************************************)
EXTENDS Integers, Sequences, FiniteSets, TLC

VARIABLES
    kv,         \* env.TEMP_KV: key -> stored value or null
    clock,      \* the server's clock, what new Date() reads
    up,         \* the upload requests being handled, one record per handler
    respCsv,    \* the reader's latest response to GET /api/forecast
    respTime,   \* the reader's latest response to GET /api/forecast_time
    fresh,      \* history: retrievals of each kind since the last store write (0..2)
    recordTorn, \* whether the reader keeps the record `torn` (fixed by Init)
    torn,       \* history: the torn pairs the reader has observed
    overlap,    \* history: the latest upload was received while another was running
    before,     \* history: the store as it was when the latest upload was received
    lastOkCsv,  \* history: body of the latest upload that answered 200
    cleanSince, \* history: that upload ran alone and none was received since
    page        \* the page script: one run of fetchAndRedraw

vars == <<kv, clock, up, respCsv, respTime, fresh, recordTorn, torn, overlap, before,
          lastOkCsv, cleanSince, page>>

---------------------------------------------------------------------------
(* Bounds of the model *)

\* the server clock runs from 0 to MaxClock
MaxClock == 1

---------------------------------------------------------------------------
(* Values *)

Null == [present |-> FALSE, value |-> <<>>]
Val(v) == [present |-> TRUE, value |-> v]

\* JavaScript truthiness of a string-or-null: null and '' are falsy
Truthy(e) == e.present /\ e.value # <<>>

\* the two keys the worker uses
Keys == {"latest_csv", "latest_csv_time"}

\* the upload handlers that run under Spec: one, taking one request after the
\* other
Uploaders == {"A"}

\* request bodies: the empty body and two tables
Bodies == {<<>>, <<"csv1">>, <<"csv2">>}

\* Content-Type header of an upload: missing, empty, text/csv, text/csv with a
\* parameter, another type, and the media type text/csv-schema
ContentTypes ==
    { Null,
      Val(<<>>),
      Val(<<"text/csv">>),
      Val(<<"text/csv", ";", "charset=utf-8">>),
      Val(<<"application/json">>),
      Val(<<"text/csv", "-schema">>) }

\* X-Upload-Timestamp header of an upload: missing, empty, a timestamp
UploadHeaders == { Null, Val(<<>>), Val(<<"2025-06-01T08:00:00Z">>) }

\* new Date(t).toISOString(): the text of the clock reading t
ISO(t) == <<"ISO", ToString(t)>>

---------------------------------------------------------------------------
(* POST /api/update *)

\* contentType.includes('text/csv'): the text contains 'text/csv'
IncludesCsv(ct) == \E i \in 1..Len(ct) : ct[i] = "text/csv"

\* the guard of the 400 answer
Rejected(ct) == ~Truthy(ct) \/ ~IncludesCsv(ct.value)

\* mutant: the header is ignored, the server's clock always stamps
UploadTimeServerOnly(hdr, now) == ISO(now)

\* request.headers.get('X-Upload-Timestamp') || new Date().toISOString()
UploadTime(hdr, now) == IF Truthy(hdr) THEN hdr.value ELSE ISO(now)

\* env.TEMP_KV.put(key, value)
KvPut(store, key, value) == [store EXCEPT ![key] = Val(value)]

IdleSlot ==
    [pc |-> "idle", ct |-> Null, body |-> <<>>, hdr |-> Null, uploadTime |-> <<>>,
     status |-> 0, puts |-> 0, failedAt |-> "", receivedAt |-> 0, blobAt |-> 0]

DoneSlot == [IdleSlot EXCEPT !.pc = "done"]

\* the upload handlers of the specification at hand
Handlers == DOMAIN up

InFlight(u) == up[u].pc \in {"putCsv", "putTime", "respond"}

\* The request arrives: the content type is checked and the body is read.
Receive(u, ct, b, h) ==
    /\ up[u].pc \in {"idle", "done"}
    /\ up' = [up EXCEPT ![u] =
                IF Rejected(ct)
                THEN [IdleSlot EXCEPT !.pc = "respond", !.ct = ct, !.status = 400]
                ELSE [IdleSlot EXCEPT !.pc = "putCsv", !.ct = ct, !.body = b,
                                       !.hdr = h, !.receivedAt = clock]]
    /\ overlap' = (\E v \in Handlers \ {u} : InFlight(v))
    /\ before' = kv
    /\ cleanSince' = FALSE
    /\ UNCHANGED <<kv, clock, respCsv, respTime, fresh, recordTorn, torn, lastOkCsv, page>>

\* mutant: blob and timestamp are written together, as one composite write
PutCsvAtomic(u, ok) ==
    /\ up[u].pc = "putCsv"
    /\ IF ok
       THEN /\ kv' = KvPut(KvPut(kv, "latest_csv", up[u].body),
                           "latest_csv_time", UploadTime(up[u].hdr, clock))
            /\ up' = [up EXCEPT ![u].pc = "putTime",
                                ![u].ct = Null,
                                ![u].puts = 1,
                                ![u].uploadTime = UploadTime(up[u].hdr, clock),
                                ![u].blobAt = clock]
            /\ fresh' = [k \in {"csv", "time"} |-> 0]
       ELSE /\ up' = [up EXCEPT ![u].pc = "respond",
                                ![u].ct = Null,
                                ![u].puts = 1,
                                ![u].failedAt = "latest_csv",
                                ![u].status = 500]
            /\ UNCHANGED <<kv, fresh>>
    /\ UNCHANGED <<clock, respCsv, respTime, recordTorn, torn, overlap, before,
                   lastOkCsv, cleanSince, page>>

\* await env.TEMP_KV.put('latest_csv', csvData) ends; on success the handler
\* goes on to compute uploadTime and to start the second write.  A write the
\* store refuses throws, and nothing in the handler catches it.
PutCsv(u, ok) ==
    /\ up[u].pc = "putCsv"
    /\ IF ok
       THEN /\ kv' = KvPut(kv, "latest_csv", up[u].body)
            /\ up' = [up EXCEPT ![u].pc = "putTime",
                                ![u].ct = Null,
                                ![u].puts = 1,
                                ![u].uploadTime = UploadTime(up[u].hdr, clock),
                                ![u].blobAt = clock]
            /\ fresh' = [k \in {"csv", "time"} |-> 0]
       ELSE /\ up' = [up EXCEPT ![u].pc = "respond",
                                ![u].ct = Null,
                                ![u].puts = 1,
                                ![u].failedAt = "latest_csv",
                                ![u].status = 500]
            /\ UNCHANGED <<kv, fresh>>
    /\ UNCHANGED <<clock, respCsv, respTime, recordTorn, torn, overlap, before,
                   lastOkCsv, cleanSince, page>>

\* mutant: a failure of the second write is swallowed and answered 200
PutTimeSwallow(u, ok) ==
    /\ up[u].pc = "putTime"
    /\ IF ok
       THEN /\ kv' = KvPut(kv, "latest_csv_time", up[u].uploadTime)
            /\ up' = [up EXCEPT ![u].pc = "respond",
                                ![u].puts = 2,
                                ![u].status = 200]
            /\ fresh' = [k \in {"csv", "time"} |-> 0]
       ELSE /\ up' = [up EXCEPT ![u].pc = "respond",
                                ![u].puts = 2,
                                ![u].failedAt = "latest_csv_time",
                                ![u].status = 200]
            /\ UNCHANGED <<kv, fresh>>
    /\ UNCHANGED <<clock, respCsv, respTime, recordTorn, torn, overlap, before,
                   lastOkCsv, cleanSince, page>>

\* await env.TEMP_KV.put('latest_csv_time', uploadTime) ends
PutTime(u, ok) ==
    /\ up[u].pc = "putTime"
    /\ IF ok
       THEN /\ kv' = KvPut(kv, "latest_csv_time", up[u].uploadTime)
            /\ up' = [up EXCEPT ![u].pc = "respond",
                                ![u].puts = 2,
                                ![u].status = 200]
            /\ fresh' = [k \in {"csv", "time"} |-> 0]
       ELSE /\ up' = [up EXCEPT ![u].pc = "respond",
                                ![u].puts = 2,
                                ![u].failedAt = "latest_csv_time",
                                ![u].status = 500]
            /\ UNCHANGED <<kv, fresh>>
    /\ UNCHANGED <<clock, respCsv, respTime, recordTorn, torn, overlap, before,
                   lastOkCsv, cleanSince, page>>

\* The response (or the uncaught exception, a 500) reaches the caller.
Respond(u) ==
    /\ up[u].pc = "respond"
    /\ up' = [up EXCEPT ![u] = DoneSlot]
    /\ lastOkCsv' = IF up[u].status = 200 THEN Val(up[u].body) ELSE lastOkCsv
    /\ cleanSince' = (up[u].status = 200 /\ ~overlap)
    /\ UNCHANGED <<kv, clock, respCsv, respTime, fresh, recordTorn, torn, overlap,
                   before, page>>

Tick ==
    /\ clock < MaxClock
    /\ clock' = clock + 1
    /\ UNCHANGED <<kv, up, respCsv, respTime, fresh, recordTorn, torn, overlap,
                   before, lastOkCsv, cleanSince, page>>

---------------------------------------------------------------------------
(* GET /api/forecast and GET /api/forecast_time *)

NoResp == [status |-> 0, body |-> <<>>]
NoTimeResp == [status |-> 0, timestamp |-> Null]

\* mutant: the forecast is read from the other key
ForecastResponseOtherKey(store) ==
    IF Truthy(store["latest_csv_time"])
    THEN [status |-> 200, body |-> store["latest_csv_time"].value]
    ELSE [status |-> 404, body |-> <<"No forecast uploaded yet.">>]

\* if (latestCSV) 200 with the text, else 404
ForecastResponse(store) ==
    IF Truthy(store["latest_csv"])
    THEN [status |-> 200, body |-> store["latest_csv"].value]
    ELSE [status |-> 404, body |-> <<"No forecast uploaded yet.">>]

\* mutant: a missing timestamp is answered like a missing forecast, with 404
ForecastTimeResponseNotFound(store) ==
    IF store["latest_csv_time"].present
    THEN [status |-> 200, timestamp |-> store["latest_csv_time"]]
    ELSE [status |-> 404, timestamp |-> Null]

\* JSON.stringify({ timestamp: ts }), status 200
ForecastTimeResponse(store) ==
    [status |-> 200, timestamp |-> store["latest_csv_time"]]

Bump(f, k) == [f EXCEPT ![k] = IF f[k] < 2 THEN f[k] + 1 ELSE f[k]]

\* The torn pairs among the reader's two latest responses rc and rt, while the
\* upload u, running alone, replaces the snapshot `before`: both got between
\* u's two writes, or rc got before u's first write and rt after its second.
TornSeen(rc, rt, fr) ==
    LET replacing(u) ==
            /\ ~overlap
            /\ Truthy(before["latest_csv"])
            /\ before["latest_csv_time"].present
            /\ before["latest_csv"].value # up[u].body
            /\ before["latest_csv_time"].value # up[u].uploadTime
    IN  {x \in {"newBlobOldTime"} :
            \E u \in Handlers :
                /\ up[u].pc = "putTime"
                /\ replacing(u)
                /\ fr["csv"] > 0 /\ fr["time"] > 0
                /\ rc = [status |-> 200, body |-> up[u].body]
                /\ rt.timestamp = before["latest_csv_time"]}
        \cup
        {x \in {"newTimeOldBlob"} :
            \E u \in Handlers :
                /\ up[u].pc = "respond"
                /\ up[u].status = 200
                /\ replacing(u)
                /\ fr["csv"] = 0 /\ fr["time"] > 0
                /\ rc = [status |-> 200, body |-> before["latest_csv"].value]
                /\ rt.timestamp = Val(up[u].uploadTime)}

\* mutant: the forecast is handed out once, the key is cleared by the read
GetForecastConsuming ==
    /\ respCsv' = ForecastResponse(kv)
    /\ kv' = [kv EXCEPT !["latest_csv"] = Null]
    /\ fresh' = Bump(fresh, "csv")
    /\ torn' = torn
    /\ UNCHANGED <<clock, up, respTime, recordTorn, overlap, before, lastOkCsv, cleanSince, page>>

GetForecast ==
    /\ respCsv' = ForecastResponse(kv)
    /\ fresh' = Bump(fresh, "csv")
    /\ torn' = IF recordTorn THEN torn \cup TornSeen(respCsv', respTime, fresh') ELSE torn
    /\ UNCHANGED <<kv, clock, up, respTime, recordTorn, overlap, before, lastOkCsv, cleanSince, page>>

GetForecastTime ==
    /\ respTime' = ForecastTimeResponse(kv)
    /\ fresh' = Bump(fresh, "time")
    /\ torn' = IF recordTorn THEN torn \cup TornSeen(respCsv, respTime', fresh') ELSE torn
    /\ UNCHANGED <<kv, clock, up, respCsv, recordTorn, overlap, before, lastOkCsv, cleanSince, page>>

\* the page script before fetchAndRedraw has run
PageIdle ==
    [pc |-> "idle", error |-> "none", resp |-> NoResp, now |-> 0,
     rows |-> <<>>, sunset |-> <<>>, sunrise |-> <<>>,
     latestPastTs |-> [k |-> "null", n |-> 0],
     badgeTs |-> [k |-> "null", n |-> 0],
     timer |-> FALSE, renders |-> 0,
     mins |-> [k |-> "null", n |-> 0], stale |-> FALSE,
     nightMs |-> 0, nightBands |-> <<>>,
     chart |-> [drawn |-> FALSE, obsBand |-> <<>>, predBand |-> <<>>],
     twilight |-> [k |-> "null", n |-> 0], idxTwilight |-> -1,
     forecastBox |-> [k |-> "dash", n |-> 0],
     uncBox |-> [k |-> "dash", n |-> 0],
     actualBox |-> [k |-> "dash", n |-> 0],
     twilightTime |-> [k |-> "dash", n |-> 0],
     remaining |-> [k |-> "dash", h |-> 0, m |-> 0]]

---------------------------------------------------------------------------
(* The worker *)

InitServer ==
    /\ kv = [k \in Keys |-> Null]
    /\ clock = 0
    /\ up = [u \in Uploaders |-> IdleSlot]
    /\ respCsv = NoResp
    /\ respTime = NoTimeResp
    /\ fresh = [k \in {"csv", "time"} |-> 0]
    /\ torn = {}
    /\ overlap = FALSE
    /\ before = [k \in Keys |-> Null]
    /\ lastOkCsv = Null
    /\ cleanSince = FALSE

Init == InitServer /\ recordTorn = FALSE /\ page = PageIdle

Upload ==
    \/ \E u \in Handlers, ct \in ContentTypes, b \in Bodies, h \in UploadHeaders :
            Receive(u, ct, b, h)
    \/ \E u \in Handlers, ok \in BOOLEAN : PutCsv(u, ok)
    \/ \E u \in Handlers, ok \in BOOLEAN : PutTime(u, ok)
    \/ \E u \in Handlers : Respond(u)

Next ==
    \/ Upload
    \/ Tick
    \/ GetForecast
    \/ GetForecastTime

Spec == Init /\ [][Next]_vars

\* The same worker with the reader keeping its record of torn pairs, at one
\* reading of the clock.
InitTorn == InitServer /\ recordTorn = TRUE /\ page = PageIdle

NextTorn ==
    \/ Upload
    \/ GetForecast
    \/ GetForecastTime

SpecTorn == InitTorn /\ [][NextTorn]_vars

\* Two invocations of the upload handler at the same time, one request each:
\* A sends the table csv1 with its own timestamp header, B sends the table
\* csv2 without the header.  The store does not fail.
Racers == {"A", "B"}

RaceStamp == <<"2025-06-01T08:00:00Z">>

RaceRequest(u) ==
    IF u = "A"
    THEN [ct |-> Val(<<"text/csv">>), body |-> <<"csv1">>, hdr |-> Val(RaceStamp)]
    ELSE [ct |-> Val(<<"text/csv">>), body |-> <<"csv2">>, hdr |-> Null]

InitRace ==
    /\ kv = [k \in Keys |-> Null]
    /\ clock = 0
    /\ up = [u \in Racers |-> IdleSlot]
    /\ respCsv = NoResp
    /\ respTime = NoTimeResp
    /\ fresh = [k \in {"csv", "time"} |-> 0]
    /\ torn = {}
    /\ overlap = FALSE
    /\ before = [k \in Keys |-> Null]
    /\ lastOkCsv = Null
    /\ cleanSince = FALSE
    /\ recordTorn = FALSE
    /\ page = PageIdle

NextRace ==
    \/ \E u \in Handlers :
            /\ up[u].pc = "idle"
            /\ Receive(u, RaceRequest(u).ct, RaceRequest(u).body, RaceRequest(u).hdr)
    \/ \E u \in Handlers : PutCsv(u, TRUE)
    \/ \E u \in Handlers : PutTime(u, TRUE)
    \/ \E u \in Handlers : Respond(u)
    \/ Tick
    \/ GetForecast
    \/ GetForecastTime

SpecRace == InitRace /\ [][NextRace]_vars

---------------------------------------------------------------------------
(* The page script: fetchAndRedraw, the CSV parse loop *)

\* JavaScript numbers: a number n, NaN, and null where a number is expected.
\* Instants are counted in half minutes from 2025-06-01 00:00, temperatures in
\* hundredths of a degree.
Num(n) == [k |-> "num", n |-> n]
NaN == [k |-> "nan", n |-> 0]
JsNull == [k |-> "null", n |-> 0]

\* one minute (60000 ms), one hour, 24 hours (86400000 ms) and 12 hours
\* (12 * 3600 * 1000 ms), in half minutes
Minute == 2

Hour == 120

Day == 2880

HalfDay == 1440

\* white space, as String.prototype.trim sees it
WhiteSpace == {" ", "\n"}

RECURSIVE TrimStart(_)
TrimStart(t) ==
    IF t # <<>> /\ Head(t) \in WhiteSpace THEN TrimStart(Tail(t)) ELSE t

RECURSIVE TrimEnd(_)
TrimEnd(t) ==
    IF t # <<>> /\ t[Len(t)] \in WhiteSpace
    THEN TrimEnd(SubSeq(t, 1, Len(t) - 1)) ELSE t

\* text.trim()
Trim(t) == TrimEnd(TrimStart(t))

\* text.split(sep): the pieces between the separators, at least one piece
RECURSIVE Split(_, _)
Split(t, sep) ==
    LET at == {i \in 1..Len(t) : t[i] = sep}
    IN  IF at = {} THEN <<t>>
        ELSE LET i == CHOOSE j \in at : \A m \in at : j <= m
             IN  <<SubSeq(t, 1, i - 1)>> \o Split(SubSeq(t, i + 1, Len(t)), sep)

\* header.indexOf(n): the first position of n counted from 0, or -1
IndexOf(header, n) ==
    LET at == {i \in 1..Len(header) : header[i] = <<n>>}
    IN  IF at = {} THEN -1 ELSE (CHOOSE i \in at : \A j \in at : i <= j) - 1

\* c[i]: the cell, or undefined outside the array
At(c, i) == IF i >= 0 /\ i < Len(c) THEN Val(c[i + 1]) ELSE Null

\* the instants the timestamp texts of the tables stand for
DateValue(a) ==
    CASE a = "2025-06-01 10:00:00" -> Num(10 * Hour)
      [] a = "2025-06-01 11:00:00" -> Num(11 * Hour)
      [] a = "2025-06-01 12:00:00" -> Num(12 * Hour)
      [] OTHER -> NaN

\* new Date(cell).getTime(): NaN for undefined and for a text that is no date
DateOf(cell) ==
    IF cell.present /\ Len(cell.value) = 1 THEN DateValue(cell.value[1]) ELSE NaN

\* the numbers the number texts of the tables stand for, in hundredths
FloatValue(a) ==
    CASE a = "10.04" -> Num(1004)
      [] a = "11.26" -> Num(1126)
      [] a = "12.5" -> Num(1250)
      [] a = "-0.46" -> Num(-46)
      [] a = "1.0" -> Num(100)
      [] a = "2.34" -> Num(234)
      [] a = "0.9" -> Num(90)
      [] OTHER -> NaN

\* parseFloat(cell): leading white space is skipped and what follows the
\* number is ignored; NaN for undefined and for a text that starts no number
ParseFloat(cell) ==
    IF ~cell.present THEN NaN
    ELSE LET t == TrimStart(cell.value)
         IN  IF t = <<>> THEN NaN ELSE FloatValue(t[1])

\* +n.toFixed(1): n rounded to one decimal
ToFixed1(h) ==
    IF h >= 0 THEN ((h + 5) \div 10) * 10 ELSE -(((-h + 5) \div 10) * 10)

\* safe without the isNaN test: +NaN.toFixed(1) is NaN
SafeUnchecked(cell) ==
    LET n == ParseFloat(cell)
    IN  IF n.k = "nan" THEN NaN ELSE Num(ToFixed1(n.n))

\* safe = v => { const n = parseFloat(v); return isNaN(n) ? null : +n.toFixed(1); }
Safe(cell) ==
    LET n == ParseFloat(cell)
    IN  IF n.k = "nan" THEN JsNull ELSE Num(ToFixed1(n.n))

\* cell.toLowerCase() === 'true'
LowerCase(a) == IF a \in {"true", "True", "TRUE"} THEN "true" ELSE a

IsTrue(cell) == Len(cell) = 1 /\ LowerCase(cell[1]) = "true"

\* the numeric columns, in the order the loop pushes them
SeriesNames == <<"tmean", "tprophet", "tmin", "tmax", "tpmin", "tpmax", "trend-weekly">>

\* the update of latestPastTs keeping the greatest instant seen
LatestPastGreatest(latestPastTs, ts, now) ==
    IF ts.k = "num" /\ ts.n <= now
          /\ (latestPastTs.k = "null" \/ latestPastTs.n <= ts.n)
    THEN ts ELSE latestPastTs

\* if (ts <= Date.now()) latestPastTs = ts; the test is false for NaN
LatestPast(latestPastTs, ts, now) ==
    IF ts.k = "num" /\ ts.n <= now THEN ts ELSE latestPastTs

EmptyLoop ==
    [thrown |-> FALSE, rows |-> <<>>, sunset |-> <<>>, sunrise |-> <<>>,
     latestPastTs |-> JsNull]

\* One pass of lines.forEach: a blank line is skipped, and that is the only
\* test a line goes through; a missing sunset cell
\* throws (undefined.toLowerCase()), which ends the loop and the handler; else
\* the row is pushed to every series.  rows[i][n] is the pair the series n
\* holds at index i, all series sharing the row's instant.
LoopBody(acc, l, header, now) ==
    IF acc.thrown \/ Trim(l) = <<>> THEN acc
    ELSE
    LET c == Split(l, ",")
        cell(n) == At(c, IndexOf(header, n))
        ts == DateOf(cell("timestamp"))
    IN  IF ~cell("sunset").present THEN [acc EXCEPT !.thrown = TRUE]
        ELSE [thrown |-> FALSE,
              latestPastTs |-> LatestPast(acc.latestPastTs, ts, now),
              sunset |-> IF IsTrue(cell("sunset").value)
                         THEN Append(acc.sunset, ts) ELSE acc.sunset,
              sunrise |-> IF Truthy(cell("sunrise")) /\ IsTrue(cell("sunrise").value)
                          THEN Append(acc.sunrise, ts) ELSE acc.sunrise,
              rows |-> Append(acc.rows,
                         [ts |-> ts,
                          val |-> [i \in 1..Len(SeriesNames) |-> Safe(cell(SeriesNames[i]))]])]

RECURSIVE ForEach(_, _, _, _)
ForEach(acc, lines, header, now) ==
    IF lines = <<>> THEN acc
    ELSE ForEach(LoopBody(acc, Head(lines), header, now), Tail(lines), header, now)

\* csv.trim().split('\n'), lines.shift().split(','), lines.forEach(...)
ParseLoop(csv, now) ==
    LET lines == Split(Trim(csv), "\n")
    IN  ForEach(EmptyLoop, Tail(lines), Split(Head(lines), ","), now)

\* .then(r => { if (!r.ok) throw ...; return r.text(); })
CheckResponse ==
    /\ page.pc = "fetched"
    /\ page' = IF page.resp.status = 200
                THEN [page EXCEPT !.pc = "text"]
                ELSE [page EXCEPT !.pc = "failed", !.error = "status"]
    /\ UNCHANGED <<kv, clock, up, respCsv, respTime, fresh, recordTorn, torn,
                   overlap, before, lastOkCsv, cleanSince>>

\* .then(csv => { ... }): the empty-text test, the parse loop and the badge
\* instant; whatever throws ends in the .catch, which only writes the message.
ParseCsv ==
    /\ page.pc = "text"
    /\ LET csv == page.resp.body
           got == ParseLoop(csv, page.now)
       IN  IF Trim(csv) = <<>>
           THEN page' = [page EXCEPT !.pc = "failed", !.error = "empty"]
           ELSE IF got.thrown
           THEN page' = [page EXCEPT !.pc = "failed", !.error = "row"]
           ELSE IF got.latestPastTs.k = "null" /\ got.rows = <<>>
           THEN page' = [page EXCEPT !.pc = "failed", !.error = "badge"]
           ELSE page' = [page EXCEPT
                            !.pc = "parsed",
                            !.rows = got.rows,
                            !.sunset = got.sunset,
                            !.sunrise = got.sunrise,
                            !.latestPastTs = got.latestPastTs,
                            !.badgeTs = IF got.latestPastTs.k = "null"
                                        THEN got.rows[1].ts ELSE got.latestPastTs]
    /\ UNCHANGED <<kv, clock, up, respCsv, respTime, fresh, recordTorn, torn,
                   overlap, before, lastOkCsv, cleanSince>>

---------------------------------------------------------------------------
(* The page script: the badge, the night bands, the chart, the twilight boxes *)

\* a value where a number is expected: null counts as 0
ToNumber(v) == IF v.k = "null" THEN Num(0) ELSE v

\* a - b and a + b: NaN if either side is NaN
Minus(a, b) ==
    LET x == ToNumber(a)
        y == ToNumber(b)
    IN  IF x.k = "nan" \/ y.k = "nan" THEN NaN ELSE Num(x.n - y.n)

Plus(a, b) ==
    LET x == ToNumber(a)
        y == ToNumber(b)
    IN  IF x.k = "nan" \/ y.k = "nan" THEN NaN ELSE Num(x.n + y.n)

\* a < b: false if either side is NaN
Less(a, b) ==
    LET x == ToNumber(a)
        y == ToNumber(b)
    IN  x.k = "num" /\ y.k = "num" /\ x.n < y.n

\* a <= b: false if either side is NaN
LessEq(a, b) ==
    LET x == ToNumber(a)
        y == ToNumber(b)
    IN  x.k = "num" /\ y.k = "num" /\ x.n <= y.n

\* Math.abs(a)
Abs(a) ==
    LET x == ToNumber(a)
    IN  IF x.k = "nan" THEN NaN ELSE Num(IF x.n < 0 THEN -x.n ELSE x.n)

\* Math.floor(a / d), d a positive number
FloorDiv(a, d) ==
    LET x == ToNumber(a)
    IN  IF x.k = "nan" THEN NaN ELSE Num(x.n \div d)

\* isFinite(a)
IsFinite(a) == ToNumber(a).k = "num"

\* what a box shows in place of a number
Dash == [k |-> "dash", n |-> 0]

\* the threshold of the badge: mins > 30
StaleMinutes == 30

\* render() with the absolute value left out
RenderSigned(latestTs, now) ==
    LET mins == FloorDiv(Minus(Num(now), latestTs), Minute)
    IN  [mins |-> mins, stale |-> Less(Num(StaleMinutes), mins)]

\* updateBadge's render(): the whole minutes between Date.now() and the badge
\* instant, red above 30
Render(latestTs, now) ==
    LET mins == FloorDiv(Abs(Minus(Num(now), latestTs)), Minute)
    IN  [mins |-> mins, stale |-> Less(Num(StaleMinutes), mins)]

\* the night length with the test of the day length left out
NightMsUnchecked(sunrise, sunset) ==
    IF Len(sunrise) > 0 /\ Len(sunset) > 0
    THEN LET dayMs == Minus(sunset[Len(sunset)], sunrise[Len(sunrise)])
         IN  IF dayMs.k = "num" THEN Day - dayMs.n ELSE HalfDay
    ELSE HalfDay

\* nightMs: 24 h less the day between the last sunrise and the last sunset,
\* 12 h if that was not computed
NightMs(sunrise, sunset) ==
    LET computed ==
            IF Len(sunrise) > 0 /\ Len(sunset) > 0
            THEN LET dayMs == Minus(sunset[Len(sunset)], sunrise[Len(sunrise)])
                 IN  IF Less(Num(0), dayMs) /\ Less(dayMs, Num(Day))
                     THEN Day - dayMs.n ELSE 0
            ELSE 0
    IN  IF computed = 0 THEN HalfDay ELSE computed

\* the bands with one band only, for the last sunset
NightBandsLastOnly(sunset, nightMs) ==
    IF sunset = <<>> THEN <<>>
    ELSE <<[from |-> sunset[Len(sunset)],
            to |-> Plus(sunset[Len(sunset)], Num(nightMs))]>>

\* nightBands = sunset.map(sun => ({from: sun, to: sun + nightMs, ...}))
NightBands(sunset, nightMs) ==
    [i \in 1..Len(sunset) |->
        [from |-> sunset[i], to |-> Plus(sunset[i], Num(nightMs))]]

\* the position of a numeric column in SeriesNames
Col(n) == CHOOSE i \in 1..Len(SeriesNames) : SeriesNames[i] = n

\* obsBand = tmin.map((d, i) => [d[0], d[1], tmax[i][1]]), predBand likewise
Band(rows, low, high) ==
    [i \in 1..Len(rows) |->
        [ts |-> rows[i].ts, low |-> rows[i].val[Col(low)],
         high |-> rows[i].val[Col(high)]]]

\* twilightUTC: the last sunset; with no sunset the script calls
\* santiagoLocalTimeToUTC, which it does not define, and the call throws
TwilightUTC(sunset) ==
    IF Len(sunset) > 0
    THEN [thrown |-> FALSE, value |-> sunset[Len(sunset)]]
    ELSE [thrown |-> TRUE, value |-> JsNull]

\* the reduce of closestIdx from row i on (indices from 0), a later row at
\* the same distance taking over
RECURSIVE ReduceLast(_, _, _, _)
ReduceLast(arr, target, i, bestIdx) ==
    IF i >= Len(arr) THEN bestIdx
    ELSE ReduceLast(arr, target, i + 1,
            IF LessEq(Abs(Minus(arr[i + 1].ts, target)),
                      Abs(Minus(arr[bestIdx + 1].ts, target)))
            THEN i ELSE bestIdx)

\* arr.reduce((bestIdx, pair, i, a) =>
\*     Math.abs(pair[0] - target) < Math.abs(a[bestIdx][0] - target) ? i : bestIdx, 0)
RECURSIVE Reduce(_, _, _, _)
Reduce(arr, target, i, bestIdx) ==
    IF i >= Len(arr) THEN bestIdx
    ELSE Reduce(arr, target, i + 1,
            IF Less(Abs(Minus(arr[i + 1].ts, target)),
                    Abs(Minus(arr[bestIdx + 1].ts, target)))
            THEN i ELSE bestIdx)

\* closestIdx with ties going to the later row
ClosestIdxLast(arr, target) == ReduceLast(arr, target, 0, 0)

ClosestIdx(arr, target) == Reduce(arr, target, 0, 0)

\* v !== null ? v.toFixed(1) : '--'
Box(v) == IF v.k # "null" THEN Num(ToFixed1(v.n)) ELSE Dash

\* (isFinite(unc) && unc > 0) ? unc.toFixed(1) : '--', unc = tpmax - tpmin
UncBox(tpmax, tpmin) ==
    LET unc == Minus(tpmax, tpmin)
    IN  IF IsFinite(unc) /\ Less(Num(0), unc) THEN Num(ToFixed1(unc.n)) ELSE Dash

\* the clock text of the twilight instant in America/Santiago, 'Invalid Date'
\* for an invalid instant
TwilightTime(twilight) ==
    IF twilight.k = "num" THEN [k |-> "clt", n |-> twilight.n]
    ELSE [k |-> "invalid", n |-> 0]

\* the remaining time with the sign of the difference set aside: the hours
\* and minutes of its absolute value
RemainingUnsigned(twilight, now) ==
    LET diffTotalMin == FloorDiv(Abs(Minus(twilight, Num(now))), Minute)
    IN  IF diffTotalMin.k = "nan" THEN [k |-> "nan", h |-> 0, m |-> 0]
        ELSE IF diffTotalMin.n \div 60 > 0
        THEN [k |-> "hm", h |-> diffTotalMin.n \div 60, m |-> diffTotalMin.n % 60]
        ELSE [k |-> "m", h |-> 0, m |-> diffTotalMin.n % 60]

\* the remaining time: 'Passed', 'h min', 'min'; NaN minutes for an invalid
\* twilight instant
Remaining(twilight, now) ==
    LET d == Minus(twilight, Num(now))
        passed == Less(d, Num(0))
        diffTotalMin == FloorDiv(Abs(d), Minute)
    IN  IF passed THEN [k |-> "passed", h |-> 0, m |-> 0]
        ELSE IF diffTotalMin.k = "nan" THEN [k |-> "nan", h |-> 0, m |-> 0]
        ELSE IF diffTotalMin.n \div 60 > 0
        THEN [k |-> "hm", h |-> diffTotalMin.n \div 60, m |-> diffTotalMin.n % 60]
        ELSE [k |-> "m", h |-> 0, m |-> diffTotalMin.n % 60]

\* The rest of the .then(csv => ...) callback, which runs on from the parse
\* without interruption: the badge, the bands, the chart, the twilight instant
\* and its boxes.  What is shown before a throw stays shown.
Redraw ==
    /\ page.pc = "parsed"
    /\ LET badge == Render(page.badgeTs, page.now)
           nightMs == NightMs(page.sunrise, page.sunset)
           tw == TwilightUTC(page.sunset)
           shown == [page EXCEPT
                        !.timer = TRUE,
                        !.mins = badge.mins,
                        !.stale = badge.stale,
                        !.nightMs = nightMs,
                        !.nightBands = NightBands(page.sunset, nightMs),
                        !.chart = [drawn |-> TRUE,
                                   obsBand |-> Band(page.rows, "tmin", "tmax"),
                                   predBand |-> Band(page.rows, "tpmin", "tpmax")]]
       IN  IF tw.thrown
           THEN page' = [shown EXCEPT !.pc = "failed", !.error = "twilight"]
           ELSE LET i == ClosestIdx(page.rows, tw.value)
                    row == page.rows[i + 1]
                IN  page' = [shown EXCEPT
                        !.pc = "drawn",
                        !.twilight = tw.value,
                        !.idxTwilight = i,
                        !.forecastBox = Box(row.val[Col("tprophet")]),
                        !.actualBox = Box(row.val[Col("tmean")]),
                        !.uncBox = UncBox(row.val[Col("tpmax")], row.val[Col("tpmin")]),
                        !.twilightTime = TwilightTime(tw.value),
                        !.remaining = Remaining(tw.value, page.now)]
    /\ UNCHANGED <<kv, clock, up, respCsv, respTime, fresh, recordTorn, torn,
                   overlap, before, lastOkCsv, cleanSince>>

\* the badge is rendered again at most MaxRenders times
MaxRenders == 1

\* setInterval(render, 60 * 1000): the badge is rendered again a minute later,
\* whatever became of the rest of the callback
RenderAgain ==
    /\ page.timer
    /\ page.renders < MaxRenders
    /\ LET now == page.now + Minute
           badge == Render(page.badgeTs, now)
       IN  page' = [page EXCEPT !.now = now, !.renders = @ + 1,
                                !.mins = badge.mins, !.stale = badge.stale]
    /\ UNCHANGED <<kv, clock, up, respCsv, respTime, fresh, recordTorn, torn,
                   overlap, before, lastOkCsv, cleanSince>>

---------------------------------------------------------------------------
(* The tables the page script is run on *)

\* the data rows of a table are at most MaxRows
MaxRows == 2

\* the readings of Date.now() are NowAt(0) .. NowAt(MaxNow)
MaxNow == 2

\* from 10:00 on, 30 minutes and a half apart
NowAt(d) == 10 * Hour + d * (30 * Minute + 1)

ColumnNames ==
    <<"timestamp", "tmin", "tmean", "tmax", "tpmin", "tprophet", "tpmax",
      "trend-weekly", "sunset", "sunrise">>

\* headers: all columns, the older version without sunrise, another order
Headers ==
    { ColumnNames,
      SubSeq(ColumnNames, 1, 9),
      <<"sunset", "tprophet", "timestamp", "tpmax", "tpmin", "tmax", "tmean",
        "tmin", "trend-weekly", "sunrise">> }

\* the cells of four rows, by column name: an observed row, a row of the
\* forecast alone (no tower reading yet) at sunset, a row with a broken stamp,
\* a later sunset row whose forecast and lower bound are missing
RowCells ==
    { [n \in {"timestamp"} |-> "2025-06-01 10:00:00"] @@
      [n \in {"tmin"} |-> "10.04"] @@ [n \in {"tmean"} |-> "11.26"] @@
      [n \in {"tmax"} |-> "12.5"] @@ [n \in {"tpmin"} |-> "-0.46"] @@
      [n \in {"tprophet"} |-> "1.0"] @@ [n \in {"tpmax"} |-> "2.34"] @@
      [n \in {"trend-weekly"} |-> "0.9"] @@
      [n \in {"sunset"} |-> "False"] @@ [n \in {"sunrise"} |-> "True"],
      [n \in {"timestamp"} |-> "2025-06-01 11:00:00"] @@
      [n \in {"tmin"} |-> ""] @@ [n \in {"tmean"} |-> ""] @@
      [n \in {"tmax"} |-> ""] @@ [n \in {"tpmin"} |-> "0.9"] @@
      [n \in {"tprophet"} |-> "2.34"] @@ [n \in {"tpmax"} |-> "12.5"] @@
      [n \in {"trend-weekly"} |-> "nan"] @@
      [n \in {"sunset"} |-> "True"] @@ [n \in {"sunrise"} |-> "False"],
      [n \in {"timestamp"} |-> "n/a"] @@
      [n \in {"tmin"} |-> "1.0"] @@ [n \in {"tmean"} |-> "2.34"] @@
      [n \in {"tmax"} |-> "11.26"] @@ [n \in {"tpmin"} |-> "1.0"] @@
      [n \in {"tprophet"} |-> "1.0"] @@ [n \in {"tpmax"} |-> "1.0"] @@
      [n \in {"trend-weekly"} |-> "10.04"] @@
      [n \in {"sunset"} |-> "false"] @@ [n \in {"sunrise"} |-> "false"],
      [n \in {"timestamp"} |-> "2025-06-01 12:00:00"] @@
      [n \in {"tmin"} |-> "10.04"] @@ [n \in {"tmean"} |-> "11.26"] @@
      [n \in {"tmax"} |-> "12.5"] @@ [n \in {"tpmin"} |-> ""] @@
      [n \in {"tprophet"} |-> ""] @@ [n \in {"tpmax"} |-> "2.34"] @@
      [n \in {"trend-weekly"} |-> "0.9"] @@
      [n \in {"sunset"} |-> "TRUE"] @@ [n \in {"sunrise"} |-> ""] }

\* a cell's text: the empty text for ''
CellText(a) == IF a = "" THEN <<>> ELSE <<a>>

RECURSIVE Join(_, _)
Join(pieces, sep) ==
    IF Len(pieces) = 0 THEN <<>>
    ELSE IF Len(pieces) = 1 THEN pieces[1]
    ELSE pieces[1] \o <<sep>> \o Join(Tail(pieces), sep)

\* the line of a row under a header: as it should be, one cell short, one cell
\* long
LineOf(header, cells, shape) ==
    LET full == [i \in 1..Len(header) |-> CellText(cells[header[i]])]
    IN  Join(CASE shape = "short" -> SubSeq(full, 1, Len(full) - 1)
               [] shape = "long" -> Append(full, <<"extra">>)
               [] OTHER -> full, ",")

\* the shapes a row comes in: the first sunset row in all three, the observed
\* row whole and short, the others whole
ShapesOf(cells) ==
    CASE cells["sunset"] = "True" -> {"full", "short", "long"}
      [] cells["sunset"] = "False" -> {"full", "short"}
      [] OTHER -> {"full"}

LinesOf(header) ==
    UNION { {LineOf(header, cells, shape) : shape \in ShapesOf(cells)} : cells \in RowCells }
        \cup {<<" ">>}

RECURSIVE SeqsUpTo(_, _)
SeqsUpTo(S, n) ==
    IF n = 0 THEN {<<>>}
    ELSE LET shorter == SeqsUpTo(S, n - 1)
         IN  shorter \cup {Append(q, x) : q \in {r \in shorter : Len(r) = n - 1}, x \in S}

\* the table texts: a header line, up to MaxRows lines, a final line break
Tables ==
    UNION { { Join(<<Join([i \in 1..Len(h) |-> <<h[i]>>], ",")>> \o ls, "\n") \o <<"\n">> :
                ls \in SeqsUpTo(LinesOf(h), MaxRows) } : h \in Headers }

\* what GET /api/forecast can answer: 404, or 200 with a stored text
Responses ==
    {ForecastResponse([k \in Keys |-> Null])}
        \cup {ForecastResponse(KvPut([k \in Keys |-> Null], "latest_csv", t)) :
                t \in Tables \cup {<<" ", "\n">>}}

InitParse ==
    /\ InitServer
    /\ recordTorn = FALSE
    /\ page \in {[PageIdle EXCEPT !.pc = "fetched", !.resp = r, !.now = NowAt(d)] :
                    r \in Responses, d \in 0..MaxNow}

NextParse ==
    \/ CheckResponse
    \/ ParseCsv
    \/ Redraw
    \/ RenderAgain

SpecParse == InitParse /\ [][NextParse]_vars

---------------------------------------------------------------------------
(* The computations of the callback as functions of their arguments: the page
   after a parse, with the series, the sunset and sunrise lists, the badge
   instant and the clock drawn from bounded sets *)

\* the series hold at most MaxCalcRows rows
MaxCalcRows == 3

\* 10:00, the instant t0 the others are counted from
T0 == 10 * Hour

\* the values of a row by column: tmean, tprophet, tmin, tmax, tpmin, tpmax,
\* trend-weekly
ValuesOf(tmean, tprophet, tpmin, tpmax) ==
    <<tmean, tprophet, Num(1000), Num(1250), tpmin, tpmax, Num(90)>>

PlainValues == ValuesOf(Num(1130), Num(100), Num(-50), Num(230))

\* rows an hour apart, rows of the same instant, rows of an invalid instant;
\* the targets lie on the rows, half way between two of them and outside
LookupStamps == {Num(T0), Num(T0 + Hour), Num(T0 + 2 * Hour), NaN}

LookupTargets ==
    {Num(T0 + Hour + 30 * Minute), Num(T0 + 30 * Minute), Num(T0 + Hour),
     Num(T0 - Hour), Num(T0 + 3 * Hour), NaN}

RECURSIVE SeqsOfLen(_, _)
SeqsOfLen(S, n) ==
    IF n = 0 THEN {<<>>}
    ELSE {Append(q, x) : q \in SeqsOfLen(S, n - 1), x \in S}

CalcPage(rows, sunset, sunrise, badgeTs, now) ==
    [PageIdle EXCEPT
        !.pc = "parsed", !.now = now, !.rows = rows, !.sunset = sunset,
        !.sunrise = sunrise, !.badgeTs = badgeTs,
        !.latestPastTs = IF badgeTs.k = "num" /\ badgeTs.n <= now
                         THEN badgeTs ELSE JsNull]

LookupInputs ==
    UNION { { CalcPage([i \in 1..n |-> [ts |-> stamps[i], val |-> PlainValues]],
                       <<target>>, <<>>, stamps[1], NowAt(0)) :
                stamps \in SeqsOfLen(LookupStamps, n), target \in LookupTargets } :
            n \in 1..MaxCalcRows }

\* the values of the row at twilight: each of them a number or null
BoxValues ==
    { ValuesOf(tmean, tprophet, tpmin, tpmax) :
        tmean \in {JsNull, Num(1130)}, tprophet \in {JsNull, Num(100)},
        tpmin \in {JsNull, Num(-50), Num(230)},
        tpmax \in {JsNull, Num(-50), Num(230)} }

BoxInputs ==
    { CalcPage(<<[ts |-> Num(T0), val |-> v]>>, <<Num(T0)>>, <<>>, Num(T0), NowAt(0)) :
        v \in BoxValues }

\* sunrises and sunsets a day and more apart, in either order, or invalid
NightInstants == {Num(T0), Num(T0 + 11 * Hour), Num(T0 + Day), NaN}

NightInputs ==
    { CalcPage(<<[ts |-> Num(T0), val |-> PlainValues]>>, sunset, sunrise,
               Num(T0), NowAt(0)) :
        sunset \in SeqsUpTo(NightInstants, 2), sunrise \in SeqsUpTo(NightInstants, 2) }

\* badge and twilight instants before and after the readings of the clock
BadgeInstants ==
    {Num(T0 - 2 * Hour), Num(T0 - 30 * Minute - 1), Num(T0 + 1), Num(T0 + Hour),
     Num(T0 + 2 * Hour + 30 * Minute + 1), NaN}

BadgeInputs ==
    { CalcPage(<<[ts |-> b, val |-> PlainValues]>>, <<t>>, <<>>, b, NowAt(d)) :
        b \in BadgeInstants, t \in BadgeInstants, d \in 0..MaxNow }

InitCalc ==
    /\ InitServer
    /\ recordTorn = FALSE
    /\ page \in LookupInputs \cup BoxInputs \cup NightInputs \cup BadgeInputs

NextCalc ==
    \/ Redraw
    \/ RenderAgain

SpecCalc == InitCalc /\ [][NextCalc]_vars

---------------------------------------------------------------------------
(* Properties of the upload and retrieval handlers *)

Quiescent == \A u \in Handlers : ~InFlight(u)

\* C1 (round trip): a forecast retrieval made after an upload of a non-empty
\* body that ran alone and answered 200, with no upload received since, answers
\* 200 with exactly the uploaded text.
C1_RoundTrip ==
    (cleanSince /\ fresh["csv"] > 0 /\ lastOkCsv.value # <<>>)
        => respCsv = [status |-> 200, body |-> lastOkCsv.value]

C1_RoundTripWitness ==
    /\ cleanSince
    /\ fresh["csv"] > 0
    /\ lastOkCsv = Val(<<"csv2">>)
    /\ respCsv = [status |-> 200, body |-> <<"csv2">>]

\* C2 (before any upload): as long as no upload has ever been received, every
\* forecast retrieval answers 404 and every metadata retrieval answers 200 with
\* a null timestamp.
C2_EmptyStoreAnswers ==
    (\A u \in Handlers : up[u].pc = "idle")
        => /\ respCsv = NoResp \/ respCsv.status = 404
           /\ respTime = NoTimeResp \/ respTime = [status |-> 200, timestamp |-> Null]

C2_EmptyStoreWitness ==
    /\ \A u \in Handlers : up[u].pc = "idle"
    /\ respCsv.status = 404
    /\ respTime = [status |-> 200, timestamp |-> Null]

\* C3 (last successful push is held): with no upload running, a retrieval
\* returns the body of the latest upload that answered 200; and an upload that
\* ran alone and did not answer 200 leaves what a retrieval returns as it was
\* when that upload was received.
C3_LastSuccessfulPushHeld ==
    /\ (Quiescent /\ lastOkCsv.present)
            => ForecastResponse(kv) = [status |-> 200, body |-> lastOkCsv.value]
    /\ \A u \in Handlers :
            (up[u].pc = "respond" /\ up[u].status # 200 /\ ~overlap)
                => ForecastResponse(kv) = ForecastResponse(before)

\* the media type a Content-Type text declares: what stands before the first ';'
MediaType(t) ==
    LET semis == {i \in 1..Len(t) : t[i] = ";"}
        cut == IF semis = {} THEN Len(t) + 1
               ELSE CHOOSE i \in semis : \A j \in semis : i <= j
    IN  SubSeq(t, 1, cut - 1)

DeclaresCsv(ct) == ct.present /\ MediaType(ct.value) = <<"text/csv">>

\* C4 (wrong content type): an upload whose Content-Type is missing or does not
\* declare text/csv is answered 400 without a write to the store.
C4_WrongContentTypeRejected ==
    \A u \in Handlers :
        ((up[u].pc = "putCsv" \/ (up[u].pc = "respond" /\ up[u].puts = 0))
            /\ ~DeclaresCsv(up[u].ct))
        => /\ up[u].pc = "respond"
           /\ up[u].status = 400
           /\ ~overlap => kv = before

\* C5 (torn window): while an upload running alone is between its two writes,
\* the store pairs that upload's blob with the timestamp it held when the
\* upload was received, and retrievals made in that window return that pair.
C5_TornWindow ==
    \A u \in Handlers :
        (up[u].pc = "putTime" /\ ~overlap)
        => /\ kv["latest_csv"] = Val(up[u].body)
           /\ kv["latest_csv_time"] = before["latest_csv_time"]
           /\ fresh["csv"] > 0 => respCsv = ForecastResponse(kv)
           /\ fresh["time"] > 0 => respTime.timestamp = before["latest_csv_time"]

\* the reader has seen the new blob with the previous timestamp, and the new
\* timestamp with the previous blob
C5_TornBothWays == torn = {"newBlobOldTime", "newTimeOldBlob"}

\* C6 (pure reads): a retrieval leaves the store unchanged, and a retrieval
\* that follows a retrieval of the same kind with no store write in between
\* returns the same response.
C6_PureReads ==
    [][ /\ GetForecast
            => (kv' = kv /\ (fresh["csv"] > 0 => respCsv' = respCsv))
        /\ GetForecastTime
            => (kv' = kv /\ (fresh["time"] > 0 => respTime' = respTime)) ]_vars

C6_TwiceEachWitness ==
    /\ fresh = [k \in {"csv", "time"} |-> 2]
    /\ respCsv.status = 200
    /\ respTime.timestamp.present

\* C7 (no NotFound after an upload): once an upload has answered 200, every
\* forecast retrieval answers 200 with the stored text.
C7_NeverNotFoundAfterUpload ==
    [][ (GetForecast /\ lastOkCsv.present)
            => respCsv' = [status |-> 200, body |-> kv["latest_csv"].value] ]_vars

C9_StorageFailureIs500 ==
    \A u \in Handlers :
        up[u].pc = "respond"
        => /\ up[u].failedAt = "latest_csv"
                => (up[u].status = 500 /\ up[u].puts = 1)
           /\ up[u].failedAt = "latest_csv_time"
                => (up[u].status = 500 /\ up[u].puts = 2)
           /\ up[u].status = 500 => up[u].failedAt # ""
           /\ up[u].status = 200
                => /\ up[u].failedAt = ""
                   /\ up[u].puts = 2
                   /\ ~overlap => /\ kv["latest_csv"] = Val(up[u].body)
                                  /\ kv["latest_csv_time"] = Val(up[u].uploadTime)

C9_FailedSecondWriteWitness ==
    \E u \in Handlers :
        /\ up[u].pc = "respond"
        /\ up[u].failedAt = "latest_csv_time"
        /\ up[u].status = 500
        /\ kv["latest_csv"] = Val(up[u].body)

---------------------------------------------------------------------------
(* Properties of the parse loop *)

\* the rows of a table as C10 describes them: the non-blank data rows that have
\* as many cells as the header, in order, each value read by column name
RECURSIVE KeptRows(_, _)
KeptRows(lines, header) ==
    IF lines = <<>> THEN <<>>
    ELSE LET c == Split(Head(lines), ",")
             cell(n) == At(c, IndexOf(header, n))
             rest == KeptRows(Tail(lines), header)
         IN  IF Trim(Head(lines)) = <<>> \/ Len(c) # Len(header) THEN rest
             ELSE <<[ts |-> DateOf(cell("timestamp")),
                     val |-> [i \in 1..Len(SeriesNames) |-> Safe(cell(SeriesNames[i]))]]>>
                  \o rest

\* C10 (row shape): after a parse, the parsed sequence holds exactly the data
\* rows that have as many cells as the header, in order, each value read from
\* the column the header names; a row of another cell count is excluded.
C10_MismatchedRowsExcluded ==
    page.pc = "parsed"
        => LET lines == Split(Trim(page.resp.body), "\n")
           IN  page.rows = KeptRows(Tail(lines), Split(Head(lines), ","))

---------------------------------------------------------------------------
(* Properties of the page script *)

\* the page holds the series of a parse that went through
Parsed == page.pc \in {"parsed", "drawn"} \/ page.error = "twilight"

\* the redraw went past the chart
Charted == page.pc = "drawn" \/ page.error = "twilight"

\* the data lines of the table the page fetched: the lines after the header
\* that are not blank
DataLines ==
    LET nonBlank(l) == Trim(l) # <<>>
    IN  SelectSeq(Tail(Split(Trim(page.resp.body), "\n")), nonBlank)

\* the cell of data line i under the column n of the fetched table's header
CellOf(i, n) ==
    LET header == Split(Head(Split(Trim(page.resp.body), "\n")), ",")
    IN  At(Split(DataLines[i], ","), IndexOf(header, n))

\* C11 (null-safe numbers): after a parse, every data line has its row at its
\* index in every series, and in each numeric column the row holds null where
\* the cell does not parse as a number, a number where it does, never NaN.
C11_UnparsableIsNull ==
    (Parsed /\ page.resp.status = 200)
        => /\ Len(page.rows) = Len(DataLines)
           /\ \A i \in 1..Len(page.rows), c \in 1..Len(SeriesNames) :
                LET n == ParseFloat(CellOf(i, SeriesNames[c]))
                    v == page.rows[i].val[c]
                IN  /\ v.k # "nan"
                    /\ n.k = "nan" => v = JsNull
                    /\ n.k = "num" => v = Num(ToFixed1(n.n))

C11_NullBesideNumberWitness ==
    /\ page.pc = "parsed"
    /\ Len(page.rows) = 2
    /\ page.rows[1].val[Col("tmean")] = JsNull
    /\ page.rows[1].val[Col("trend-weekly")] = JsNull
    /\ page.rows[1].val[Col("tprophet")] = Num(230)
    /\ page.rows[2].val[Col("tmean")] = Num(1130)

\* the distance of row j (from 0) to the twilight instant, both valid
Distance(j) ==
    LET d == page.rows[j + 1].ts.n - page.twilight.n
    IN  IF d < 0 THEN -d ELSE d

\* every row of the series has a valid instant
AllStampsValid == \A j \in 1..Len(page.rows) : page.rows[j].ts.k = "num"

\* C12 (nearest row): over rows and a target that are valid instants, the
\* index the lookup returns is that of a row at the least distance from the
\* target, and no row before it is as near.
C12_NearestRowFirstOnTies ==
    (page.pc = "drawn" /\ AllStampsValid /\ page.twilight.k = "num")
        => /\ page.idxTwilight \in 0..(Len(page.rows) - 1)
           /\ \A j \in 0..(Len(page.rows) - 1) :
                /\ Distance(page.idxTwilight) <= Distance(j)
                /\ j < page.idxTwilight => Distance(page.idxTwilight) < Distance(j)

C12_MidpointWitness ==
    /\ page.pc = "drawn"
    /\ Len(page.rows) = 3
    /\ page.rows[1].ts = Num(T0)
    /\ page.rows[2].ts = Num(T0 + Hour)
    /\ page.rows[3].ts = Num(T0 + 2 * Hour)
    /\ page.twilight = Num(T0 + Hour + 30 * Minute)
    /\ page.idxTwilight = 1

\* C13 (night duration): with both lists non-empty and the day from the last
\* sunrise to the last sunset more than 0 and less than 24 h, the night is
\* 24 h less that day; in every other case it is 12 h; it is always more than
\* 0 and less than 24 h.
C13_NightDuration ==
    Charted
        => LET paired == /\ Len(page.sunrise) > 0 /\ Len(page.sunset) > 0
                         /\ page.sunrise[Len(page.sunrise)].k = "num"
                         /\ page.sunset[Len(page.sunset)].k = "num"
               dayDuration == page.sunset[Len(page.sunset)].n
                                - page.sunrise[Len(page.sunrise)].n
           IN  /\ page.nightMs =
                    IF paired /\ 0 < dayDuration /\ dayDuration < Day
                    THEN Day - dayDuration ELSE HalfDay
               /\ 0 < page.nightMs
               /\ page.nightMs < Day

C13_FullDayFallsBackWitness ==
    /\ page.pc = "drawn"
    /\ page.sunrise = <<Num(T0 + 11 * Hour), Num(T0)>>
    /\ page.sunset = <<Num(T0 + 11 * Hour), Num(T0 + Day)>>
    /\ page.nightMs = HalfDay

\* C19 (night intervals): the bands are one per sunset instant, in the order
\* of the sunset list, each from its sunset to that sunset plus the one night
\* duration of the retrieval.
C19_OneBandPerSunset ==
    Charted
        => /\ Len(page.nightBands) = Len(page.sunset)
           /\ \A i \in 1..Len(page.sunset) :
                /\ page.nightBands[i].from = page.sunset[i]
                /\ page.nightBands[i].to =
                      IF page.sunset[i].k = "num"
                      THEN Num(page.sunset[i].n + page.nightMs) ELSE NaN

C19_TwoBandsWitness ==
    /\ page.pc = "drawn"
    /\ page.sunrise = <<Num(T0)>>
    /\ page.sunset = <<Num(T0 + Day), Num(T0 + 11 * Hour)>>
    /\ page.nightMs = 13 * Hour
    /\ page.nightBands =
          <<[from |-> Num(T0 + Day), to |-> Num(T0 + Day + 13 * Hour)],
            [from |-> Num(T0 + 11 * Hour), to |-> Num(T0 + Day)]>>

\* C20 (staleness): once the badge is shown, its minutes are the whole minutes
\* in the distance between the clock and the badge instant, never negative
\* (not a number for an invalid badge instant); the badge is red exactly when
\* they exceed 30; and the chart of the fetched rows is drawn whatever the
\* badge says.
C20_BadgeMinutes ==
    page.timer
        => /\ page.mins =
                IF page.badgeTs.k = "num"
                THEN LET d == page.now - page.badgeTs.n
                     IN  Num((IF d < 0 THEN -d ELSE d) \div Minute)
                ELSE NaN
           /\ page.mins.n >= 0
           /\ page.stale <=> (page.mins.k = "num" /\ page.mins.n > StaleMinutes)
           /\ page.chart.drawn
           /\ Len(page.chart.obsBand) = Len(page.rows)

C20_StaleAfterRenderWitness ==
    /\ page.pc = "drawn"
    /\ page.renders = 1
    /\ page.badgeTs = Num(T0 - 30 * Minute - 1)
    /\ page.now = T0 + Minute
    /\ page.mins = Num(31)
    /\ page.stale
    /\ page.chart.drawn

\* the rows (by index from 1) whose instant is valid and not after the clock
PastRows == {i \in 1..Len(page.rows) :
                page.rows[i].ts.k = "num" /\ page.rows[i].ts.n <= page.now}

\* C14 (freshness, as first stated): the badge instant is the greatest
\* instant not after the clock among the rows, and the first row's instant if
\* every row is in the future.
C14_GreatestPastStamp ==
    (Parsed /\ page.renders = 0 /\ page.resp.status = 200)
        => IF PastRows = {} THEN page.badgeTs = page.rows[1].ts
           ELSE /\ \E i \in PastRows : page.badgeTs = page.rows[i].ts
                /\ \A i \in PastRows : page.rows[i].ts.n <= page.badgeTs.n

\* C14 (freshness): the badge instant is that of the last row, in the order
\* of the table, whose instant is valid and not after the clock, and the first
\* row's instant if there is no such row.
C14_LastPastRowInOrder ==
    (Parsed /\ page.renders = 0 /\ page.resp.status = 200)
        => IF PastRows = {} THEN page.badgeTs = page.rows[1].ts
           ELSE LET last == CHOOSE i \in PastRows : \A j \in PastRows : j <= i
                IN  page.badgeTs = page.rows[last].ts

C14_PastThenFutureWitness ==
    /\ page.pc = "parsed"
    /\ page.now = NowAt(1)
    /\ Len(page.rows) = 2
    /\ page.rows[1].ts = Num(10 * Hour)
    /\ page.rows[2].ts = Num(11 * Hour)
    /\ page.badgeTs = Num(10 * Hour)

\* a data line with as many cells as the header
WellFormed(i) ==
    Len(Split(DataLines[i], ",")) = Len(Split(Head(Split(Trim(page.resp.body), "\n")), ","))

\* C15 (row errors absorbed): a load of a table with data lines never ends in
\* the failure state because of a row, and the well-formed rows are parsed.
C15_RowErrorsAbsorbed ==
    (page.pc \notin {"fetched", "text"} /\ page.resp.status = 200
        /\ Trim(page.resp.body) # <<>>)
        => /\ page.error # "row"
           /\ (\E i \in 1..Len(DataLines) : WellFormed(i)) => page.rows # <<>>

\* C16 (invalid instants skipped): when some row has a valid instant, the
\* row of an invalid instant is in the series, and the row the lookup
\* returns, the badge instant, the sunset instants and the twilight instant
\* are all valid.
C16_InvalidStampSkipped ==
    (page.pc = "drawn" /\ page.resp.status = 200
        /\ \E i \in 1..Len(page.rows) : page.rows[i].ts.k = "num")
        => /\ Len(page.rows) = Len(DataLines)
           /\ page.rows[page.idxTwilight + 1].ts.k = "num"
           /\ page.badgeTs.k = "num"
           /\ page.twilight.k = "num"
           /\ \A i \in 1..Len(page.sunset) : page.sunset[i].k = "num"

\* C17 (null is not zero): at the twilight row the uncertainty is shown
\* exactly when tpmax and tpmin are both numbers and tpmax - tpmin is positive,
\* and the forecast and the observed value are shown exactly when they are
\* numbers.
C17_NullIsUnavailable ==
    page.pc = "drawn"
        => LET row == page.rows[page.idxTwilight + 1]
               tpmax == row.val[Col("tpmax")]
               tpmin == row.val[Col("tpmin")]
           IN  /\ page.uncBox # Dash
                    <=> (tpmax.k = "num" /\ tpmin.k = "num" /\ tpmax.n - tpmin.n > 0)
               /\ page.forecastBox # Dash <=> row.val[Col("tprophet")].k = "num"
               /\ page.actualBox # Dash <=> row.val[Col("tmean")].k = "num"

\* C18 (twilight instant): after a parse the redraw gets to the twilight
\* boxes with a twilight instant, the last sunset if there is one, and the
\* boxes show the values of the row nearest to it.
C18_TwilightDerived ==
    (Parsed /\ page.pc # "parsed")
        => /\ page.pc = "drawn"
           /\ page.twilight.k # "null"
           /\ page.sunset # <<>> => page.twilight = page.sunset[Len(page.sunset)]
           /\ page.idxTwilight = ClosestIdx(page.rows, page.twilight)
           /\ page.forecastBox = Box(page.rows[page.idxTwilight + 1].val[Col("tprophet")])

\* C21 (remaining time): for a valid twilight instant and d the twilight
\* instant less the clock of the redraw, the box reads 'Passed' when d < 0,
\* and otherwise hours h and minutes m with 0 <= m < 60 and 60 h + m the whole
\* minutes in d, the hours being left out when they are 0; no negative number
\* is shown.
C21_RemainingTime ==
    (page.pc = "drawn" /\ page.renders = 0 /\ page.twilight.k = "num")
        => LET d == page.twilight.n - page.now
               r == page.remaining
           IN  /\ d < 0 => r = [k |-> "passed", h |-> 0, m |-> 0]
               /\ d >= 0 => /\ r.k = (IF r.h > 0 THEN "hm" ELSE "m")
                            /\ 60 * r.h + r.m = d \div Minute
               /\ r.h >= 0
               /\ r.m >= 0
               /\ r.m < 60

C21_HoursAndMinutesWitness ==
    /\ page.pc = "drawn"
    /\ page.now = T0
    /\ page.twilight = Num(T0 + 2 * Hour + 30 * Minute + 1)
    /\ page.remaining = [k |-> "hm", h |-> 2, m |-> 30]

\* what the store holds after the upload of u alone, its timestamp written at
\* the clock reading t
PairOf(u, t) ==
    [k \in Keys |->
        IF k = "latest_csv" THEN Val(RaceRequest(u).body)
        ELSE Val(UploadTime(RaceRequest(u).hdr, t))]

\* C22 (last write wins): once the two uploads have both been answered, the
\* store holds the table and the timestamp of one and the same upload.
C22_LastWriterHoldsBoth ==
    (\A u \in Handlers : up[u].pc = "done")
        => \E u \in Handlers, t \in 0..MaxClock : kv = PairOf(u, t)

====
